---- MODULE Spec2Model ----
(***************************************************************************)
(* A model of hblunck/wordmill: the node/edge data model of node_types.py  *)
(* and wordmill.py, AssemblySystem.discover / generate, and the five       *)
(* generation algorithms of algorithms.py.                                 *)
(*                                                                         *)
(* Words are sequences of one-character strings ("ab" is <<"a","b">>).     *)
(* Node objects live in a heap, the sequence `nodes`; an object's identity *)
(* is its index.  Every node records the module whose class it is an       *)
(* instance of: the classes of wordmill/wordmill.py and those of           *)
(* wordmill/node_types.py are different Python classes, and isinstance     *)
(* in node_types.py looks classes up in node_types itself.                 *)
(***************************************************************************)
EXTENDS Integers, Sequences, FiniteSets, TLC

VARIABLES
    nodes,                  \* the heap: Seq of node records
    pc,                     \* position of the running call
    err,                    \* the exception that ended the call, or "none"
    algo,                   \* the generation function passed as `func`
    entry,                  \* "generate" (AssemblySystem.generate) or "direct" (func called by hand)
    words,                  \* the output words, in dict order
    w_standard,             \* late differentiation's standard words
    w_standard_order,       \* the order in which iterating w_standard yields them
    sources,                \* dict word -> Source
    sinks,                  \* dict word -> Sink
    inventories_to_supply,  \* the worklist of the algorithms
    created_inventories,    \* dict of bio-inspired / team
    inventory_pairs,        \* list of form_product_focussed_team_assembly
    pair_idx,               \* how many entries of inventory_pairs the for loop has taken
    inventories_for_standard_products,  \* dict of late differentiation
    untreated_nodes,        \* discover's worklist
    discovered_nodes,       \* discover's result set
    subset,                 \* discover's argument
    last,                   \* the last edge call made by hand and how it ended
    split                   \* the last split_word call and how it ended

vars == <<nodes, pc, err, algo, entry, words, w_standard, w_standard_order, sources, sinks,
          inventories_to_supply, created_inventories, inventory_pairs, pair_idx,
          inventories_for_standard_products, untreated_nodes, discovered_nodes,
          subset, last, split>>

----------------------------------------------------------------------------
(* Bounds and finite input sets.                                           *)

\* total number of characters of all output words of one generation call
MaxChars == 4
\* number of standard words handed to late differentiation
MaxStd == 2
\* cap on the heap size (stops the runs of the algorithms that never return)
MaxNodes == 70
\* longest word handed to split_word directly
MaxSplitLen == 3
\* total number of neighbor-list entries in a hand-built graph
MaxRecords == 5

Alphabet == {"a", "b"}

Range(s) == {s[i] : i \in 1..Len(s)}

RECURSIVE WordsOfLen(_)
WordsOfLen(n) ==
    IF n = 0 THEN {<<>>}
    ELSE {<<c>> \o w : c \in Alphabet, w \in WordsOfLen(n - 1)}

\* non-empty words of at most n characters
WordsUpTo(n) == UNION {WordsOfLen(k) : k \in 1..n}

\* duplicate-free lists of non-empty words with at most n characters in total
RECURSIVE WordLists(_)
WordLists(n) ==
    {<<>>} \cup
    UNION {{<<w>> \o rest : rest \in {r \in WordLists(n - Len(w)) : w \notin Range(r)}}
           : w \in WordsUpTo(n)}

\* the characters of a list of words, each as a one-character word
CharsOf(ws) == UNION {{<<ws[i][j]>> : j \in 1..Len(ws[i])} : i \in 1..Len(ws)}

\* w[a:b] of Python for 0 <= a, b (0-based, end exclusive, clamped)
Slice(w, a, b) ==
    LET lo == IF a > Len(w) THEN Len(w) ELSE a
        hi == IF b > Len(w) THEN Len(w) ELSE b
    IN  IF hi <= lo THEN <<>> ELSE SubSeq(w, lo + 1, hi)

\* the index Python's slice uses for a possibly negative position
SliceIndex(w, pos) ==
    IF pos < 0 THEN (IF pos + Len(w) < 0 THEN 0 ELSE pos + Len(w))
    ELSE IF pos > Len(w) THEN Len(w) ELSE pos

\* `c in w` of Python strings
IsSubstring(c, w) ==
    \E i \in 0..(Len(w) - Len(c)) : Slice(w, i, i + Len(c)) = c

\* w.index(c): the first position where c occurs in w
IndexOf(w, c) ==
    CHOOSE i \in 0..(Len(w) - Len(c)) :
        /\ Slice(w, i, i + Len(c)) = c
        /\ \A j \in 0..(i - 1) : Slice(w, j, j + Len(c)) # c

Substrings(w) == {Slice(w, i, j) : i \in 0..Len(w), j \in 0..Len(w)} \ {<<>>}

----------------------------------------------------------------------------
(* split_word.                                                             *)

\* word[:pos], word[pos:]
SlicePair(word, pos) ==
    <<Slice(word, 0, SliceIndex(word, pos)),
      Slice(word, SliceIndex(word, pos), Len(word))>>

\* Node.split_word of node_types.py: asserts 1 <= pos <= len(word) - 1
Node_split_word(word, pos) ==
    IF 1 <= pos /\ pos <= Len(word) - 1
    THEN [err |-> "none", value |-> SlicePair(word, pos)]
    ELSE [err |-> "InvalidSplitPosition", value |-> <<>>]

\* split_word of wordmill.py: the one algorithms.py imports; no assertion
split_word(word, pos) ==
    [err |-> "none", value |-> SlicePair(word, pos)]

----------------------------------------------------------------------------
(* The node model.                                                         *)

Kinds == {"Source", "Sink", "Inventory", "Machine"}
Modules == {"wordmill", "node_types"}

\* Node.__init__ followed by the subclass constructor
NewNode(kind, mod, ins, outs) ==
    [kind |-> kind, mod |-> mod, inputs |-> ins, outputs |-> outs,
     input_nodes |-> <<>>, output_nodes |-> <<>>]

Inventory(mod, w) == NewNode("Inventory", mod, <<w>>, <<w>>)
Machine(mod, left_word, right_word) ==
    NewNode("Machine", mod, <<left_word, right_word>>, <<left_word \o right_word>>)
Source(mod, w) == NewNode("Source", mod, <<>>, <<w>>)
Sink(mod, w) == NewNode("Sink", mod, <<w>>, <<>>)

\* the class attributes of node_types.py
allowed_input_node_class_names(kind) ==
    CASE kind = "Inventory" -> {"Source", "Machine"}
      [] kind = "Machine"   -> {"Inventory"}
      [] kind = "Source"    -> {}
      [] kind = "Sink"      -> {"Inventory"}

\* the table with Sink added to the classes a Source may feed
allowed_output_node_class_names_source_to_sink(kind) ==
    CASE kind = "Inventory" -> {"Sink", "Machine"}
      [] kind = "Machine"   -> {"Inventory"}
      [] kind = "Source"    -> {"Inventory", "Sink"}
      [] kind = "Sink"      -> {}

\* the table with Sink added to the classes a Machine may feed
allowed_output_node_class_names_machine_to_sink(kind) ==
    CASE kind = "Inventory" -> {"Sink", "Machine"}
      [] kind = "Machine"   -> {"Inventory", "Sink"}
      [] kind = "Source"    -> {"Inventory"}
      [] kind = "Sink"      -> {}

allowed_output_node_class_names(kind) ==
    CASE kind = "Inventory" -> {"Sink", "Machine"}
      [] kind = "Machine"   -> {"Inventory"}
      [] kind = "Source"    -> {"Inventory"}
      [] kind = "Sink"      -> {}

\* isinstance(n, getattr(sys.modules[__name__], class_name)) evaluated in node_types.py
IsInstanceOfNodeTypes(n, class_name) == n.mod = "node_types" /\ n.kind = class_name

\* Node.word, overridden by Sink.word
Word(n) == IF n.kind = "Sink" THEN n.inputs[1] ELSE n.outputs[1]

\* Node.neighbors of the node with identity i in heap h
neighbors(h, i) == Range(h[i].input_nodes) \cup Range(h[i].output_nodes)

\* fully_connected without the comparison of the input words with the words
\* of the input neighbors
fully_connected_counts_only(h, i) ==
    LET n == h[i] IN
    IF Len(n.input_nodes) < Len(n.inputs) THEN FALSE
    ELSE IF Len(n.output_nodes) < Len(n.outputs) THEN FALSE
    ELSE TRUE

\* Node.fully_connected
fully_connected(h, i) ==
    LET n == h[i] IN
    IF Len(n.input_nodes) < Len(n.inputs) THEN FALSE
    ELSE IF Range(n.inputs) \ {Word(h[j]) : j \in Range(n.input_nodes)} # {} THEN FALSE
    ELSE IF Len(n.output_nodes) < Len(n.outputs) THEN FALSE
    ELSE TRUE

(* The edge methods act on a record st with the fields nodes and err; a    *)
(* call made after an exception was raised does nothing, which is how the  *)
(* straight-line code after a raise is skipped.                            *)

\* the first exception raised is the one that propagates
Raise(st, e) == IF st.err # "none" THEN st ELSE [st EXCEPT !.err = e]

\* Node.form_outbound_edge: node_types.py checks, wordmill.py only appends
form_outbound_edge(st, self, other) ==
    IF st.err # "none" THEN st
    ELSE IF st.nodes[self].mod = "wordmill"
    THEN [st EXCEPT !.nodes[self].output_nodes = Append(@, other)]
    ELSE IF Range(st.nodes[self].outputs) \cap Range(st.nodes[other].inputs) = {}
    THEN Raise(st, "ProductMismatch")
    ELSE IF ~ \E c \in allowed_output_node_class_names(st.nodes[self].kind) :
                IsInstanceOfNodeTypes(st.nodes[other], c)
    THEN Raise(st, "KindViolation")
    ELSE [st EXCEPT !.nodes[self].output_nodes = Append(@, other)]

\* form_inbound_edge without the comparison of the products
form_inbound_edge_kind_only(st, self, other) ==
    IF st.err # "none" THEN st
    ELSE IF st.nodes[self].mod = "wordmill"
    THEN [st EXCEPT !.nodes[self].input_nodes = Append(@, other)]
    ELSE IF ~ \E c \in allowed_input_node_class_names(st.nodes[self].kind) :
                IsInstanceOfNodeTypes(st.nodes[other], c)
    THEN Raise(st, "KindViolation")
    ELSE [st EXCEPT !.nodes[self].input_nodes = Append(@, other)]

\* Node.form_inbound_edge
form_inbound_edge(st, self, other) ==
    IF st.err # "none" THEN st
    ELSE IF st.nodes[self].mod = "wordmill"
    THEN [st EXCEPT !.nodes[self].input_nodes = Append(@, other)]
    ELSE IF Range(st.nodes[other].outputs) \cap Range(st.nodes[self].inputs) = {}
    THEN Raise(st, "ProductMismatch")
    ELSE IF ~ \E c \in allowed_input_node_class_names(st.nodes[self].kind) :
                IsInstanceOfNodeTypes(st.nodes[other], c)
    THEN Raise(st, "KindViolation")
    ELSE [st EXCEPT !.nodes[self].input_nodes = Append(@, other)]

\* form_edge that records the edge on the producer only
node_types_form_edge_outbound_only(st, source, sink) ==
    form_outbound_edge(st, source, sink)

\* form_edge of node_types.py
node_types_form_edge(st, source, sink) ==
    form_inbound_edge(form_outbound_edge(st, source, sink), sink, source)

\* form_edge of wordmill.py without line 351, sink.form_inbound_edge(source)
form_edge_inbound_omitted(st, source, sink) ==
    IF st.err # "none" THEN st
    ELSE IF Range(st.nodes[source].outputs) \cap Range(st.nodes[sink].inputs) = {}
    THEN Raise(st, "AssertionError")
    ELSE form_outbound_edge(st, source, sink)

\* form_edge of wordmill.py: the one algorithms.py imports
form_edge(st, source, sink) ==
    IF st.err # "none" THEN st
    ELSE IF Range(st.nodes[source].outputs) \cap Range(st.nodes[sink].inputs) = {}
    THEN Raise(st, "AssertionError")
    ELSE form_inbound_edge(form_outbound_edge(st, source, sink), sink, source)

\* the object a constructor call returns is the next heap cell
NextId(st) == Len(st.nodes) + 1
Alloc(st, n) == IF st.err # "none" THEN st ELSE [st EXCEPT !.nodes = Append(@, n)]

----------------------------------------------------------------------------
(* Values of the variables a specification does not use.                   *)

NoDict == <<>>
NoLast == [op |-> "none", source |-> 0, sink |-> 0, err |-> "none"]
NoSplit == [fn |-> "none", word |-> <<>>, pos |-> 0, err |-> "none", value |-> <<>>]

GenIdle ==
    /\ algo = "none" /\ entry = "none" /\ words = <<>> /\ w_standard = {}
    /\ w_standard_order = <<>>
    /\ sources = NoDict /\ sinks = NoDict
    /\ inventories_to_supply = <<>> /\ created_inventories = NoDict
    /\ inventory_pairs = <<>> /\ pair_idx = 0
    /\ inventories_for_standard_products = NoDict

genVars == <<algo, entry, words, w_standard, w_standard_order, sources, sinks,
             inventories_to_supply,
             created_inventories, inventory_pairs, pair_idx,
             inventories_for_standard_products>>
discVars == <<untreated_nodes, discovered_nodes, subset>>

----------------------------------------------------------------------------
(* SpecSplit: the two split_word functions applied to drawn arguments.     *)

SplitFunctions == {"Node.split_word", "split_word"}
SplitPositions == (0 - 1)..(MaxSplitLen + 1)

InitSplit ==
    /\ GenIdle
    /\ nodes = <<>> /\ err = "none" /\ last = NoLast
    /\ untreated_nodes = {} /\ discovered_nodes = {} /\ subset = {}
    /\ pc = "split_call"
    /\ \E fn \in SplitFunctions, w \in WordsUpTo(MaxSplitLen) \cup {<<>>}, pos \in SplitPositions :
          split = [fn |-> fn, word |-> w, pos |-> pos, err |-> "none", value |-> <<>>]

\* the call Node.split_word(word, pos) or split_word(word, pos)
SplitWord ==
    /\ pc = "split_call"
    /\ LET r == IF split.fn = "Node.split_word"
                THEN Node_split_word(split.word, split.pos)
                ELSE split_word(split.word, split.pos)
       IN  /\ split' = [split EXCEPT !.err = r.err, !.value = r.value]
           /\ pc' = IF r.err = "none" THEN "returned" ELSE "raised"
    /\ UNCHANGED <<nodes, err, last, genVars, discVars>>

NextSplit == SplitWord

SpecSplit == InitSplit /\ [][NextSplit]_vars

----------------------------------------------------------------------------
(* AssemblySystem.discover.                                                *)

\* the turn without the subtraction of discovered_nodes in line 349
discover_turn_neighbors_unfiltered(h, untreated, discovered, n) ==
    [untreated |-> (untreated \ {n}) \cup neighbors(h, n),
     discovered |-> discovered \cup {n}]

\* lines 348-350: one turn of the while loop in which set.pop() returned n
discover_turn(h, untreated, discovered, n) ==
    [untreated |-> (untreated \ {n}) \cup (neighbors(h, n) \ discovered),
     discovered |-> discovered \cup {n}]

\* lines 347-350: the while loop run to its end, popping the least identity
RECURSIVE discover_loop(_, _, _)
discover_loop(h, untreated, discovered) ==
    IF untreated = {} THEN discovered
    ELSE LET n == CHOOSE x \in untreated : \A y \in untreated : x <= y
             t == discover_turn(h, untreated, discovered, n)
         IN  discover_loop(h, t.untreated, t.discovered)

\* the check written with any() in place of all()
insufficient_not_any(h, discovered) ==
    ~ \E n \in discovered : fully_connected(h, n)

\* lines 351-352: the check made on the discovered nodes
insufficient(h, discovered) == \E n \in discovered : ~ fully_connected(h, n)

\* lines 345-346
BeginDiscover(seeds) ==
    /\ subset' = seeds
    /\ untreated_nodes' = seeds
    /\ discovered_nodes' = {}
    /\ pc' = "discover"

\* one turn of the while loop; set.pop() removes an arbitrary element
DiscoverPop ==
    /\ pc = "discover"
    /\ untreated_nodes # {}
    /\ \E n \in untreated_nodes :
          LET t == discover_turn(nodes, untreated_nodes, discovered_nodes, n)
          IN  untreated_nodes' = t.untreated /\ discovered_nodes' = t.discovered
    /\ UNCHANGED <<nodes, pc, err, subset, last, split, genVars>>

\* the check after the loop, and the return of AssemblySystem(discovered_nodes)
DiscoverCheck ==
    /\ pc = "discover"
    /\ untreated_nodes = {}
    /\ IF insufficient(nodes, discovered_nodes)
       THEN pc' = "raised" /\ err' = "IncompleteGraph"
       ELSE pc' = "returned" /\ err' = "none"
    /\ UNCHANGED <<nodes, last, split, genVars, discVars>>

\* a whole call discover(seeds) made inside another call.  The element pop()
\* returns is arbitrary; SpecEdge runs the loop turn by turn over every choice,
\* and the set the loop ends with is the same for all of them, so here the
\* loop is run to its end in one step.
Discover(seeds) ==
    /\ subset' = seeds
    /\ untreated_nodes' = {}
    /\ discovered_nodes' = discover_loop(nodes, seeds, {})
    /\ IF insufficient(nodes, discover_loop(nodes, seeds, {}))
       THEN pc' = "raised" /\ err' = "IncompleteGraph"
       ELSE pc' = "returned" /\ err' = "none"

----------------------------------------------------------------------------
(* SpecEdge: three or four nodes of node_types.py wired by hand, as its    *)
(* tests do, and then handed to discover.                                  *)

a1 == <<"a">>
a2 == <<"a", "a">>
a3 == <<"a", "a", "a">>

NodeCatalogue ==
    << Source("node_types", a1),
       Sink("node_types", a1),
       Sink("node_types", a2),
       Inventory("node_types", a1),
       Inventory("node_types", a2),
       Inventory("node_types", a3),
       Machine("node_types", a1, a1),
       Machine("node_types", a2, a1) >>

\* the heaps a caller starts from: three fresh nodes
EdgeHeaps ==
    {<<NodeCatalogue[i], NodeCatalogue[j], NodeCatalogue[k]>> :
        i \in DOMAIN NodeCatalogue, j \in DOMAIN NodeCatalogue, k \in DOMAIN NodeCatalogue}

\* two Sources, an Inventory and a Sink of one word: a heap in which a node
\* can have two producers and a consumer
SharedInventoryHeap ==
    <<Source("node_types", a1), Source("node_types", a1),
      Inventory("node_types", a1), Sink("node_types", a1)>>

RECURSIVE SumLen(_, _)
SumLen(h, i) ==
    IF i = 0 THEN 0
    ELSE Len(h[i].input_nodes) + Len(h[i].output_nodes) + SumLen(h, i - 1)

\* the number of neighbor-list entries in the heap
Records(h) == SumLen(h, Len(h))

InitEdge ==
    /\ GenIdle
    /\ nodes \in {h \in EdgeHeaps :
                    \A i \in 1..2 : \E x, y \in DOMAIN NodeCatalogue :
                        x <= y /\ h[i] = NodeCatalogue[x] /\ h[i + 1] = NodeCatalogue[y]}
                 \cup {SharedInventoryHeap}
    /\ err = "none" /\ last = NoLast /\ split = NoSplit
    /\ untreated_nodes = {} /\ discovered_nodes = {} /\ subset = {}
    /\ pc = "build"

EdgeCall(op, p, c, st) ==
    /\ Records(st.nodes) <= MaxRecords
    /\ nodes' = st.nodes
    /\ last' = [op |-> op, source |-> p, sink |-> c, err |-> st.err]
    /\ UNCHANGED <<pc, err, split, genVars, discVars>>

\* p.form_outbound_edge(c)
Outbound ==
    /\ pc = "build"
    /\ \E p \in DOMAIN nodes, c \in DOMAIN nodes :
          EdgeCall("form_outbound_edge", p, c,
                   form_outbound_edge([nodes |-> nodes, err |-> "none"], p, c))

\* c.form_inbound_edge(p)
Inbound ==
    /\ pc = "build"
    /\ \E p \in DOMAIN nodes, c \in DOMAIN nodes :
          EdgeCall("form_inbound_edge", p, c,
                   form_inbound_edge([nodes |-> nodes, err |-> "none"], c, p))

\* form_edge(p, c) of node_types.py
Edge ==
    /\ pc = "build"
    /\ \E p \in DOMAIN nodes, c \in DOMAIN nodes :
          EdgeCall("form_edge", p, c,
                   node_types_form_edge([nodes |-> nodes, err |-> "none"], p, c))

\* AssemblySystem.discover(subset) on the hand-built nodes
DiscoverByHand ==
    /\ pc = "build"
    /\ \E seeds \in SUBSET (DOMAIN nodes) : BeginDiscover(seeds)
    /\ last' = NoLast
    /\ UNCHANGED <<nodes, err, split, genVars>>

NextEdge == Outbound \/ Inbound \/ Edge \/ DiscoverByHand \/ DiscoverPop \/ DiscoverCheck

SpecEdge == InitEdge /\ [][NextEdge]_vars

----------------------------------------------------------------------------
(* Spec: a generation function is called on dicts of Sources and Sinks,    *)
(* by AssemblySystem.generate or by hand, and discover is run on the       *)
(* result.  One action per loop of the function: the loop over the sinks,  *)
(* then one action per turn of the worklist loop.                          *)

Algorithms == {"linear", "component", "bio_inspired", "product_focussed_team",
               "late_product_differentiation"}

RECURSIVE SetToSeq(_)
SetToSeq(S) ==
    IF S = {} THEN <<>>
    ELSE LET x == CHOOSE y \in S : TRUE IN <<x>> \o SetToSeq(S \ {x})

\* {k: position of k in ks, shifted by base}: the dict built by a comprehension
\* whose i-th constructor call returns heap cell base + i
DictOf(ks, base) == [k \in Range(ks) |-> base + (CHOOSE i \in 1..Len(ks) : ks[i] = k)]

Values(d) == {d[k] : k \in DOMAIN d}

\* the orders in which a for loop over the set S can yield its elements
IterationOrders(S) ==
    {o \in [1..Cardinality(S) -> S] : Range(o) = S}

\* the standard-word sets tried: standard words that occur in no output word
\* play no part in form_late_product_differentiation
StandardSets(ws) ==
    {S \in SUBSET (UNION {Substrings(ws[i]) : i \in 1..Len(ws)}) : Cardinality(S) <= MaxStd}

\* the locals of a generation function, as one record
GenState ==
    [nodes |-> nodes, err |-> "none",
     todo |-> inventories_to_supply,
     created |-> created_inventories,
     pairs |-> inventory_pairs,
     std |-> inventories_for_standard_products]

\* back from the record to the variables; an exception ends the call
Commit(st) ==
    /\ nodes' = st.nodes
    /\ inventories_to_supply' = st.todo
    /\ created_inventories' = st.created
    /\ inventory_pairs' = st.pairs
    /\ inventories_for_standard_products' = st.std
    /\ err' = st.err
    /\ pc' = IF st.err = "none" THEN "loop" ELSE "raised"

Push(st, inv) == IF st.err # "none" THEN st ELSE [st EXCEPT !.todo = Append(@, inv)]
Pop(st) == [st EXCEPT !.todo = SubSeq(@, 1, Len(@) - 1)]

\* form_edge(sources[w], inv): the lookup raises KeyError before the call
form_edge_from_source(st, w, inv) ==
    IF w \in DOMAIN sources THEN form_edge(st, sources[w], inv) ELSE Raise(st, "KeyError")

\* AssemblySystem.generate up to the call of func: the sinks, then the sources.
\* A caller of func by hand builds the two dicts the same way, from Sources of
\* its own choice.
Init ==
    /\ last = NoLast /\ split = NoSplit
    /\ untreated_nodes = {} /\ discovered_nodes = {} /\ subset = {}
    /\ err = "none" /\ pc = "func"
    /\ inventories_to_supply = <<>> /\ created_inventories = NoDict
    /\ inventory_pairs = <<>> /\ pair_idx = 0
    /\ inventories_for_standard_products = NoDict
    /\ algo \in Algorithms
    /\ words \in WordLists(MaxChars) \ {<<>>}
    /\ w_standard \in IF algo = "late_product_differentiation" THEN StandardSets(words) ELSE {{}}
    /\ w_standard_order \in IterationOrders(w_standard)
    /\ entry \in {"generate", "direct"}
    /\ \E mod \in Modules,
          inputs \in IF entry = "generate" THEN {CharsOf(words)} ELSE SUBSET WordsOfLen(1) :
          LET ins == SetToSeq(inputs) IN
          /\ entry = "direct" => mod = "wordmill"
          /\ sinks = DictOf(words, 0)
          /\ sources = DictOf(ins, Len(words))
          /\ nodes = [i \in 1..Len(words) |-> Sink(mod, words[i])]
                     \o [i \in 1..Len(ins) |-> Source(mod, ins[i])]

Running == pc = "func" /\ Len(nodes) < MaxNodes
Looping == pc = "loop" /\ inventories_to_supply # <<>> /\ Len(nodes) < MaxNodes
Top == inventories_to_supply[Len(inventories_to_supply)]

(* -- form_linear_assembly -- *)

\* lines 8-11, from the i-th sink on
RECURSIVE linear_sinks(_, _)
linear_sinks(st, i) ==
    IF i > Len(words) \/ st.err # "none" THEN st
    ELSE LET inv == NextId(st)
             s1 == Alloc(st, Inventory("wordmill", words[i]))
             s2 == form_edge(s1, inv, sinks[words[i]])
         IN  linear_sinks(Push(s2, inv), i + 1)

\* the turn without line 20, the edge from the left Inventory to the Machine
linear_turn_left_unwired(st) ==
    LET inv == st.todo[Len(st.todo)]
        s0 == Pop(st)
        body(w_left, w_right) ==
            LET m == NextId(s0)
                s1 == form_edge(Alloc(s0, Machine("wordmill", w_left, w_right)), m, inv)
                inv_left == NextId(s1)
                s2 == Alloc(s1, Inventory("wordmill", w_left))
                s3 == form_edge_from_source(s2, w_left, inv_left)
                inv_right == NextId(s3)
                s5 == form_edge(Alloc(s3, Inventory("wordmill", w_right)), inv_right, m)
            IN  IF w_right \in DOMAIN sources
                THEN form_edge(s5, sources[w_right], inv_right)
                ELSE Push(s5, inv_right)
    IN  (LET sp == split_word(Word(st.nodes[inv]), 1)
             IN  IF sp.err # "none" THEN Raise(s0, sp.err)
                 ELSE body(sp.value[1], sp.value[2]))

\* lines 13-26: one turn of the while loop
linear_turn(st) ==
    LET inv == st.todo[Len(st.todo)]
        s0 == Pop(st)
        body(w_left, w_right) ==
            LET m == NextId(s0)
                s1 == form_edge(Alloc(s0, Machine("wordmill", w_left, w_right)), m, inv)
                inv_left == NextId(s1)
                s2 == Alloc(s1, Inventory("wordmill", w_left))
                s3 == form_edge_from_source(s2, w_left, inv_left)
                s4 == form_edge(s3, inv_left, m)
                inv_right == NextId(s4)
                s5 == form_edge(Alloc(s4, Inventory("wordmill", w_right)), inv_right, m)
            IN  IF w_right \in DOMAIN sources
                THEN form_edge(s5, sources[w_right], inv_right)
                ELSE Push(s5, inv_right)
    IN  (LET sp == split_word(Word(st.nodes[inv]), 1)
             IN  IF sp.err # "none" THEN Raise(s0, sp.err)
                 ELSE body(sp.value[1], sp.value[2]))

LinearSinks ==
    /\ Running /\ algo = "linear"
    /\ Commit(linear_sinks(GenState, 1))
    /\ UNCHANGED <<algo, entry, words, w_standard, w_standard_order, sources, sinks, pair_idx, last,
                 split, discVars>>

LinearTurn ==
    /\ Looping /\ algo = "linear"
    /\ Commit(linear_turn(GenState))
    /\ UNCHANGED <<algo, entry, words, w_standard, w_standard_order, sources, sinks, pair_idx, last,
                 split, discVars>>

(* -- form_component_assembly -- *)

\* lines 31-34
RECURSIVE component_sinks(_, _)
component_sinks(st, i) ==
    IF i > Len(words) \/ st.err # "none" THEN st
    ELSE LET inv == NextId(st)
             s1 == Alloc(st, Inventory("wordmill", words[i]))
             s2 == form_edge(s1, inv, sinks[words[i]])
         IN  component_sinks(Push(s2, inv), i + 1)

\* the midpoint rounded up
Midpoint_ceil(w) == (Len(w) + 1) \div 2

\* math.floor(len(word) / 2.0)
Midpoint(w) == Len(w) \div 2

\* lines 37-49
component_turn(st) ==
    LET inv == st.todo[Len(st.todo)]
        s0 == Pop(st)
        w == Word(st.nodes[inv])
        body(w_left, w_right) ==
            LET m == NextId(s0)
                s1 == form_edge(Alloc(s0, Machine("wordmill", w_left, w_right)), m, inv)
                inv_left == NextId(s1)
                s2 == form_edge(Alloc(s1, Inventory("wordmill", w_left)), inv_left, m)
                inv_right == NextId(s2)
                s3 == form_edge(Alloc(s2, Inventory("wordmill", w_right)), inv_right, m)
            IN  Push(Push(s3, inv_left), inv_right)
    IN  IF w \in DOMAIN sources
        THEN form_edge(s0, sources[w], inv)
        ELSE (LET sp == split_word(w, Midpoint(w))
             IN  IF sp.err # "none" THEN Raise(s0, sp.err)
                 ELSE body(sp.value[1], sp.value[2]))

ComponentSinks ==
    /\ Running /\ algo = "component"
    /\ Commit(component_sinks(GenState, 1))
    /\ UNCHANGED <<algo, entry, words, w_standard, w_standard_order, sources, sinks, pair_idx, last,
                 split, discVars>>

ComponentTurn ==
    /\ Looping /\ algo = "component"
    /\ Commit(component_turn(GenState))
    /\ UNCHANGED <<algo, entry, words, w_standard, w_standard_order, sources, sinks, pair_idx, last,
                 split, discVars>>

(* -- form_bio_inspired_assembly -- *)

\* the range that stops one position early
LastSplitPosition_short(w) == Len(w) - 2

\* range(1, len(w)): the last position the for loops over the splits reach
LastSplitPosition(w) == Len(w) - 1

\* the keys of created_inventories: a word, or a (left, right) tuple
WordKey(w) == <<"word", w>>
PairKey(w_left, w_right) == <<"pair", w_left, w_right>>

Register(st, k, v) == IF st.err # "none" THEN st ELSE [st EXCEPT !.created = (k :> v) @@ @]

\* lines 56-60
RECURSIVE bio_sinks(_, _)
bio_sinks(st, i) ==
    IF i > Len(words) \/ st.err # "none" THEN st
    ELSE LET inv == NextId(st)
             s1 == Alloc(st, Inventory("wordmill", words[i]))
             s2 == form_edge(s1, inv, sinks[words[i]])
         IN  bio_sinks(Register(Push(s2, inv), WordKey(words[i]), inv), i + 1)

\* the Inventory of word w created without the lookup in created_inventories
reuse_or_create_always_new(st, w, m) ==
    LET inv == NextId(st)
        s1 == Register(Push(Alloc(st, Inventory("wordmill", w)), inv), WordKey(w), inv)
    IN  form_edge(s1, inv, m)

\* lines 76-82 and 84-90: the Inventory of word w, reused or created, wired to m
reuse_or_create(st, w, m) ==
    LET known == WordKey(w) \in DOMAIN st.created
        inv == IF known THEN st.created[WordKey(w)] ELSE NextId(st)
        s1 == IF known THEN st
              ELSE Register(Push(Alloc(st, Inventory("wordmill", w)), inv), WordKey(w), inv)
    IN  form_edge(s1, inv, m)

\* lines 67-90: the for loop over the split positions, from position i on
RECURSIVE bio_splits(_, _, _, _)
bio_splits(st, inv, w, i) ==
    IF i > LastSplitPosition(w) \/ st.err # "none" THEN st
    ELSE LET body(w_left, w_right) ==
                 LET known == PairKey(w_left, w_right) \in DOMAIN st.created
                     m == IF known THEN st.created[PairKey(w_left, w_right)] ELSE NextId(st)
                     s1 == IF known THEN st
                           ELSE Register(Alloc(st, Machine("wordmill", w_left, w_right)),
                                         PairKey(w_left, w_right), m)
                     s2 == form_edge(s1, m, inv)
                     s3 == reuse_or_create(s2, w_left, m)
                 IN  reuse_or_create(s3, w_right, m)
         IN  bio_splits((LET sp == split_word(w, i)
             IN  IF sp.err # "none" THEN Raise(st, sp.err)
                 ELSE body(sp.value[1], sp.value[2])), inv, w, i + 1)

\* lines 62-90
bio_turn(st) ==
    LET inv == st.todo[Len(st.todo)]
        s0 == Pop(st)
        w == Word(st.nodes[inv])
    IN  IF w \in DOMAIN sources
        THEN form_edge(s0, sources[w], inv)
        ELSE bio_splits(s0, inv, w, 1)

BioSinks ==
    /\ Running /\ algo = "bio_inspired"
    /\ Commit(bio_sinks(GenState, 1))
    /\ UNCHANGED <<algo, entry, words, w_standard, w_standard_order, sources, sinks, pair_idx, last,
                 split, discVars>>

BioTurn ==
    /\ Looping /\ algo = "bio_inspired"
    /\ Commit(bio_turn(GenState))
    /\ UNCHANGED <<algo, entry, words, w_standard, w_standard_order, sources, sinks, pair_idx, last,
                 split, discVars>>

(* -- form_product_focussed_team_assembly -- *)

\* created_machines: assigned dict() on line 114 and never written
created_machines == NoDict

\* lines 98-106: the for loop over the split positions of an output word
RECURSIVE team_top_splits(_, _, _, _)
team_top_splits(st, inv, w_out, i) ==
    IF i > LastSplitPosition(w_out) \/ st.err # "none" THEN st
    ELSE LET body(w_left, w_right) ==
                 LET m == NextId(st)
                     s1 == form_edge(Alloc(st, Machine("wordmill", w_left, w_right)), m, inv)
                     inv_left == NextId(s1)
                     s2 == Alloc(s1, Inventory("wordmill", w_left))
                     inv_right == NextId(s2)
                     s3 == Alloc(s2, Inventory("wordmill", w_right))
                     s4 == form_edge(form_edge(s3, inv_left, m), inv_right, m)
                 IN  IF s4.err # "none" THEN s4
                     ELSE [s4 EXCEPT !.pairs = Append(@, <<inv_left, inv_right>>)]
         IN  team_top_splits((LET sp == split_word(w_out, i)
             IN  IF sp.err # "none" THEN Raise(st, sp.err)
                 ELSE body(sp.value[1], sp.value[2])), inv, w_out, i + 1)

\* lines 95-106
RECURSIVE team_sinks(_, _)
team_sinks(st, i) ==
    IF i > Len(words) \/ st.err # "none" THEN st
    ELSE LET inv == NextId(st)
             s1 == Alloc(st, Inventory("wordmill", words[i]))
             s2 == form_edge(s1, inv, sinks[words[i]])
         IN  team_sinks(team_top_splits(s2, inv, words[i], 1), i + 1)

\* lines 121-144: the for loop over the split positions, from position i on
RECURSIVE team_splits(_, _, _, _)
team_splits(st, inv, w, i) ==
    IF i > LastSplitPosition(w) \/ st.err # "none" THEN st
    ELSE LET body(w_left, w_right) ==
                 LET known == PairKey(w_left, w_right) \in DOMAIN created_machines
                     m == IF known THEN st.created[PairKey(w_left, w_right)] ELSE NextId(st)
                     s1 == IF known THEN st
                           ELSE Register(Alloc(st, Machine("wordmill", w_left, w_right)),
                                         PairKey(w_left, w_right), m)
                     s2 == form_edge(s1, m, inv)
                     s3 == reuse_or_create(s2, w_left, m)
                 IN  reuse_or_create(s3, w_right, m)
         IN  team_splits((LET sp == split_word(w, i)
             IN  IF sp.err # "none" THEN Raise(st, sp.err)
                 ELSE body(sp.value[1], sp.value[2])), inv, w, i + 1)

\* lines 116-144
team_turn(st) ==
    LET inv == st.todo[Len(st.todo)]
        s0 == Pop(st)
        w == Word(st.nodes[inv])
    IN  IF w \in DOMAIN sources
        THEN form_edge(s0, sources[w], inv)
        ELSE team_splits(s0, inv, w, 1)

TeamSinks ==
    /\ Running /\ algo = "product_focussed_team"
    /\ Commit(team_sinks(GenState, 1))
    /\ UNCHANGED <<algo, entry, words, w_standard, w_standard_order, sources, sinks, pair_idx, last,
                 split, discVars>>

\* the outer for loop with created_inventories kept from one pair to the next
TeamNextPair_dict_kept ==
    /\ pc = "loop" /\ algo = "product_focussed_team"
    /\ inventories_to_supply = <<>>
    /\ pair_idx < Len(inventory_pairs)
    /\ LET inv_left == inventory_pairs[pair_idx + 1][1]
           inv_right == inventory_pairs[pair_idx + 1][2]
       IN  /\ created_inventories' =
                 (WordKey(Word(nodes[inv_right])) :> inv_right)
                    @@ (WordKey(Word(nodes[inv_left])) :> inv_left)
                    @@ created_inventories
           /\ inventories_to_supply' = <<inv_left, inv_right>>
    /\ pair_idx' = pair_idx + 1
    /\ UNCHANGED <<nodes, pc, err, algo, entry, words, w_standard, w_standard_order, sources, sinks,
                   inventory_pairs, inventories_for_standard_products, last, split, discVars>>

\* lines 108-114: the outer for loop takes the next pair
TeamNextPair ==
    /\ pc = "loop" /\ algo = "product_focussed_team"
    /\ inventories_to_supply = <<>>
    /\ pair_idx < Len(inventory_pairs)
    /\ LET inv_left == inventory_pairs[pair_idx + 1][1]
           inv_right == inventory_pairs[pair_idx + 1][2]
       IN  /\ created_inventories' =
                 (WordKey(Word(nodes[inv_right])) :> inv_right)
                    @@ (WordKey(Word(nodes[inv_left])) :> inv_left)
           /\ inventories_to_supply' = <<inv_left, inv_right>>
    /\ pair_idx' = pair_idx + 1
    /\ UNCHANGED <<nodes, pc, err, algo, entry, words, w_standard, w_standard_order, sources, sinks,
                   inventory_pairs, inventories_for_standard_products, last, split, discVars>>

TeamTurn ==
    /\ Looping /\ algo = "product_focussed_team"
    /\ Commit(team_turn(GenState))
    /\ UNCHANGED <<algo, entry, words, w_standard, w_standard_order, sources, sinks, pair_idx, last,
                 split, discVars>>

(* -- form_late_product_differentiation -- *)

\* get_inventory_for_standard_product without the test of line 152
std_inventory_no_lookup(st, w) ==
    IF st.err # "none" THEN st
    ELSE IF w \notin w_standard THEN Raise(st, "AssertionError")
    ELSE LET inv == NextId(st)
             s1 == Push(Alloc(st, Inventory("wordmill", w)), inv)
         IN  [s1 EXCEPT !.std = (w :> inv) @@ @]

\* get_inventory_for_standard_product(w): the state after the call ...
std_inventory(st, w) ==
    IF st.err # "none" THEN st
    ELSE IF w \notin w_standard THEN Raise(st, "AssertionError")
    ELSE IF w \in DOMAIN st.std THEN st
    ELSE LET inv == NextId(st)
             s1 == Push(Alloc(st, Inventory("wordmill", w)), inv)
         IN  [s1 EXCEPT !.std = (w :> inv) @@ @]

\* ... and the Inventory it returns
std_inventory_id(st, w) == IF w \in DOMAIN st.std THEN st.std[w] ELSE NextId(st)

\* the loop of get_longest_standard_product_in without the comparison of
\* lengths: the first standard word that occurs in w
get_longest_standard_product_in_first(w) ==
    LET found == {i \in 1..Len(w_standard_order) :
                     w_standard_order[i] # w /\ IsSubstring(w_standard_order[i], w)}
    IN  IF found = {} THEN <<>>
        ELSE w_standard_order[CHOOSE i \in found : \A j \in found : i <= j]

\* lines 160-162: the for loop over w_standard from its i-th element on;
\* <<>> stands for None
RECURSIVE best_standard_product(_, _, _)
best_standard_product(w, i, best) ==
    IF i > Len(w_standard_order) THEN best
    ELSE LET c == w_standard_order[i]
         IN  best_standard_product(w, i + 1,
                 IF c # w /\ IsSubstring(c, w) /\ (best = <<>> \/ Len(c) > Len(best))
                 THEN c ELSE best)

\* get_longest_standard_product_in(w)
get_longest_standard_product_in(w) == best_standard_product(w, 1, <<>>)

\* lines 167-173
RECURSIVE late_sinks(_, _)
late_sinks(st, i) ==
    IF i > Len(words) \/ st.err # "none" THEN st
    ELSE LET w_out == words[i]
             std == w_out \in w_standard
             inv == IF std /\ w_out \in DOMAIN st.std THEN st.std[w_out] ELSE NextId(st)
             s1 == IF std
                   THEN (IF w_out \in DOMAIN st.std THEN st ELSE Raise(st, "KeyError"))
                   ELSE Push(Alloc(st, Inventory("wordmill", w_out)), inv)
         IN  late_sinks(form_edge(s1, inv, sinks[w_out]), i + 1)

\* lines 196-200 and 202-206: the Inventory of a non-empty head or tail ...
part_inventory(st, w) ==
    IF w \in w_standard THEN std_inventory(st, w)
    ELSE Push(Alloc(st, Inventory("wordmill", w)), NextId(st))

part_inventory_id(st, w) ==
    IF w \in w_standard THEN std_inventory_id(st, w) ELSE NextId(st)

\* lines 182-190: no standard word in w
late_split_first(s0, inv, w) ==
    LET body(w_left, w_right) ==
            LET m == NextId(s0)
                s1 == form_edge(Alloc(s0, Machine("wordmill", w_left, w_right)), m, inv)
                inv_left == NextId(s1)
                s2 == form_edge(Alloc(s1, Inventory("wordmill", w_left)), inv_left, m)
                inv_right == NextId(s2)
                s3 == form_edge(Alloc(s2, Inventory("wordmill", w_right)), inv_right, m)
            IN  Push(Push(s3, inv_left), inv_right)
    IN  (LET sp == split_word(w, 1)
             IN  IF sp.err # "none" THEN Raise(s0, sp.err)
                 ELSE body(sp.value[1], sp.value[2]))

\* lines 192-227 without the tests of lines 195 and 201: an Inventory for
\* an empty head or tail too
late_around_empty_parts(s0, inv, w, wst) ==
    LET w_head == Slice(w, 0, IndexOf(w, wst))
        w_tail == Slice(w, IndexOf(w, wst) + Len(wst), Len(w))
        inv_w_head == part_inventory_id(s0, w_head)
        s1 == part_inventory(s0, w_head)
        inv_w_tail == part_inventory_id(s1, w_tail)
        s2 == part_inventory(s1, w_tail)
    IN  IF Len(w_head) > 0 /\ Len(w_tail) > 0
        THEN LET inv_intermediate == NextId(s2)
                 s3 == Alloc(s2, Inventory("wordmill", w_head \o wst))
                 m1 == NextId(s3)
                 s4 == Alloc(s3, Machine("wordmill", w_head, wst))
                 s5 == form_edge(form_edge(s4, m1, inv_intermediate), inv_w_head, m1)
                 s6 == form_edge(std_inventory(s5, wst), std_inventory_id(s5, wst), m1)
                 m2 == NextId(s6)
                 s7 == Alloc(s6, Machine("wordmill", w_head \o wst, w_tail))
                 s8 == form_edge(form_edge(s7, inv_intermediate, m2), inv_w_tail, m2)
             IN  form_edge(s8, m2, inv)
        ELSE IF Len(w_head) > 0
        THEN LET m == NextId(s2)
                 s3 == form_edge(Alloc(s2, Machine("wordmill", w_head, wst)), m, inv)
                 s4 == form_edge(std_inventory(s3, wst), std_inventory_id(s3, wst), m)
             IN  form_edge(s4, inv_w_head, m)
        ELSE IF Len(w_tail) > 0
        THEN LET m == NextId(s2)
                 s3 == form_edge(Alloc(s2, Machine("wordmill", wst, w_tail)), m, inv)
                 s4 == form_edge(std_inventory(s3, wst), std_inventory_id(s3, wst), m)
             IN  form_edge(s4, inv_w_tail, m)
        ELSE s2

\* lines 192-227: w is built around the standard word wst
late_around(s0, inv, w, wst) ==
    LET w_head == Slice(w, 0, IndexOf(w, wst))
        w_tail == Slice(w, IndexOf(w, wst) + Len(wst), Len(w))
        inv_w_head == part_inventory_id(s0, w_head)
        s1 == IF Len(w_head) > 0 THEN part_inventory(s0, w_head) ELSE s0
        inv_w_tail == part_inventory_id(s1, w_tail)
        s2 == IF Len(w_tail) > 0 THEN part_inventory(s1, w_tail) ELSE s1
    IN  IF Len(w_head) > 0 /\ Len(w_tail) > 0
        THEN LET inv_intermediate == NextId(s2)
                 s3 == Alloc(s2, Inventory("wordmill", w_head \o wst))
                 m1 == NextId(s3)
                 s4 == Alloc(s3, Machine("wordmill", w_head, wst))
                 s5 == form_edge(form_edge(s4, m1, inv_intermediate), inv_w_head, m1)
                 s6 == form_edge(std_inventory(s5, wst), std_inventory_id(s5, wst), m1)
                 m2 == NextId(s6)
                 s7 == Alloc(s6, Machine("wordmill", w_head \o wst, w_tail))
                 s8 == form_edge(form_edge(s7, inv_intermediate, m2), inv_w_tail, m2)
             IN  form_edge(s8, m2, inv)
        ELSE IF Len(w_head) > 0
        THEN LET m == NextId(s2)
                 s3 == form_edge(Alloc(s2, Machine("wordmill", w_head, wst)), m, inv)
                 s4 == form_edge(std_inventory(s3, wst), std_inventory_id(s3, wst), m)
             IN  form_edge(s4, inv_w_head, m)
        ELSE IF Len(w_tail) > 0
        THEN LET m == NextId(s2)
                 s3 == form_edge(Alloc(s2, Machine("wordmill", wst, w_tail)), m, inv)
                 s4 == form_edge(std_inventory(s3, wst), std_inventory_id(s3, wst), m)
             IN  form_edge(s4, inv_w_tail, m)
        ELSE s2

\* lines 175-227, with wst the value get_longest_standard_product_in returned
\* (<<>> stands for None)
late_turn(st, wst) ==
    LET inv == st.todo[Len(st.todo)]
        s0 == Pop(st)
        w == Word(st.nodes[inv])
    IN  IF w \in DOMAIN sources THEN form_edge(s0, sources[w], inv)
        ELSE IF wst = <<>> THEN late_split_first(s0, inv, w)
        ELSE late_around(s0, inv, w, wst)

LateSinks ==
    /\ Running /\ algo = "late_product_differentiation"
    /\ Commit(late_sinks(GenState, 1))
    /\ UNCHANGED <<algo, entry, words, w_standard, w_standard_order, sources, sinks, pair_idx, last,
                 split, discVars>>

LateTurn ==
    /\ Looping /\ algo = "late_product_differentiation"
    /\ Commit(late_turn(GenState, get_longest_standard_product_in(Word(nodes[Top]))))
    /\ UNCHANGED <<algo, entry, words, w_standard, w_standard_order, sources, sinks, pair_idx, last,
                 split, discVars>>

(* -- the return of func, and the discover that follows -- *)

\* the worklist is empty (and, for the team algorithm, every pair is done):
\* func returns
Return ==
    /\ pc = "loop" /\ inventories_to_supply = <<>>
    /\ algo = "product_focussed_team" => pair_idx = Len(inventory_pairs)
    /\ pc' = "built"
    /\ UNCHANGED <<nodes, err, last, split, genVars, discVars>>

\* generate line 386: discover(sources.values())
GenerateDiscover ==
    /\ pc = "built" /\ entry = "generate"
    /\ Discover(Values(sources))
    /\ UNCHANGED <<nodes, last, split, genVars>>

\* a caller by hand runs discover on the sources, the sinks or both
DirectDiscover ==
    /\ pc = "built" /\ entry = "direct"
    /\ \E seeds \in {Values(sources), Values(sinks), Values(sources) \cup Values(sinks)} :
          Discover(seeds)
    /\ UNCHANGED <<nodes, last, split, genVars>>

Next ==
    \/ LinearSinks \/ LinearTurn
    \/ ComponentSinks \/ ComponentTurn
    \/ BioSinks \/ BioTurn
    \/ TeamSinks \/ TeamNextPair \/ TeamTurn
    \/ LateSinks \/ LateTurn
    \/ Return \/ GenerateDiscover \/ DirectDiscover

Spec == Init /\ [][Next]_vars

----------------------------------------------------------------------------
(* Properties of split_word (SpecSplit).                                   *)

\* C5: for a word of at least two characters and 1 <= pos <= len - 1, both
\* split_word functions return (word[:pos], word[pos:]), two non-empty halves
\* whose concatenation is the word; for pos = 0 and pos = len(word) both of
\* them raise the invalid-split-position error and return no pair.
C5_SplitCorrect ==
    (pc # "split_call" /\ Len(split.word) >= 2) =>
        LET w == split.word
            pos == split.pos
        IN  /\ (1 <= pos /\ pos <= Len(w) - 1) =>
                  /\ pc = "returned"
                  /\ split.value = <<SubSeq(w, 1, pos), SubSeq(w, pos + 1, Len(w))>>
                  /\ split.value[1] # <<>> /\ split.value[2] # <<>>
                  /\ split.value[1] \o split.value[2] = w
            /\ (pos = 0 \/ pos = Len(w)) =>
                  pc = "raised" /\ split.err = "InvalidSplitPosition"

----------------------------------------------------------------------------
(* Properties of the edge methods and of discover (SpecEdge).              *)

\* the hand-made call recorded in `last` was made on producer P and consumer C
LastProducer == nodes[last.source]
LastConsumer == nodes[last.sink]
LastIsOneSided == last.op \in {"form_outbound_edge", "form_inbound_edge"}
LastSharesWord == Range(LastProducer.outputs) \cap Range(LastConsumer.inputs) # {}
LastKinds == <<LastProducer.kind, LastConsumer.kind>>

\* C2: after form_edge(A, B) has returned without error, whatever edge calls
\* succeeded or failed before it, B is in A's output-neighbor list, A is in
\* B's input-neighbor list, B is one of A.neighbors and A one of B.neighbors.
C2_EdgeSymmetry ==
    (pc = "build" /\ last.op = "form_edge" /\ last.err = "none") =>
        /\ last.sink \in Range(LastProducer.output_nodes)
        /\ last.source \in Range(LastConsumer.input_nodes)
        /\ last.sink \in neighbors(nodes, last.source)
        /\ last.source \in neighbors(nodes, last.sink)

\* a second form_edge between two different nodes that already have neighbors
C2_Witness ==
    /\ pc = "build" /\ last.op = "form_edge" /\ last.err = "none"
    /\ last.source # last.sink
    /\ Records(nodes) = 4

ForbiddenKinds ==
    {<<"Source", "Sink">>, <<"Source", "Machine">>, <<"Inventory", "Inventory">>,
     <<"Machine", "Machine">>, <<"Machine", "Sink">>}
PermittedKinds ==
    {<<"Source", "Inventory">>, <<"Inventory", "Machine">>,
     <<"Machine", "Inventory">>, <<"Inventory", "Sink">>}

\* C3: for a producer P and a consumer C that share a word, P.form_outbound_edge(C)
\* and C.form_inbound_edge(P) both raise the kind error when (kind of P, kind of C)
\* is Source->Sink, Source->Machine, Inventory->Inventory, Machine->Machine or
\* Machine->Sink, and a call that raises it records no neighbor; a one-sided
\* call succeeds only for Source->Inventory, Inventory->Machine,
\* Machine->Inventory and Inventory->Sink.
C3_KindAlternation ==
    /\ [](  (pc = "build" /\ LastIsOneSided) =>
              /\ (LastSharesWord /\ LastKinds \in ForbiddenKinds) => last.err = "KindViolation"
              /\ last.err = "none" => LastKinds \in PermittedKinds  )
    /\ [][ (pc' = "build" /\ last'.err = "KindViolation") => nodes' = nodes ]_vars

\* the consumer side has refused a Machine as the producer of a Sink's word
C3_Witness ==
    /\ pc = "build" /\ last.op = "form_inbound_edge" /\ last.err = "KindViolation"
    /\ LastSharesWord /\ LastKinds = <<"Machine", "Sink">>

\* C4: for a producer P and a consumer C of permitted kinds with
\* P.outputs and C.inputs disjoint, P.form_outbound_edge(C) and
\* C.form_inbound_edge(P) both raise the product-mismatch error, and a call
\* that raises it leaves the neighbor lists of every node as they were.
C4_ProductMatching ==
    /\ [](  (pc = "build" /\ LastIsOneSided /\ LastKinds \in PermittedKinds /\ ~ LastSharesWord) =>
              last.err = "ProductMismatch"  )
    /\ [][ (pc' = "build" /\ last'.err = "ProductMismatch") => nodes' = nodes ]_vars

\* the consumer side has refused an Inventory whose word the Machine does not take
C4_Witness ==
    /\ pc = "build" /\ last.op = "form_inbound_edge" /\ last.err = "ProductMismatch"
    /\ LastKinds = <<"Inventory", "Machine">> /\ ~ LastSharesWord
    /\ Records(nodes) > 0

\* the nodes that can be reached from S along the neighbors relation
RECURSIVE Reach(_, _)
Reach(h, S) ==
    LET T == S \cup UNION {neighbors(h, n) : n \in S}
    IN  IF T = S THEN S ELSE Reach(h, T)

\* C7: discover raises the incomplete-graph error exactly when some node of
\* the closure of its seeds is not fully connected; nothing is raised while
\* the closure is being computed; and when it returns, every node of the
\* closure is fully connected and the node set it returns is the closure,
\* closed under the neighbors relation.
C7_DiscoverCheck ==
    /\ pc = "discover" => err = "none"
    /\ pc \in {"raised", "returned"} =>
          untreated_nodes = {} /\ discovered_nodes = Reach(nodes, subset)
    /\ pc = "raised" =>
          /\ err = "IncompleteGraph"
          /\ \E n \in Reach(nodes, subset) : ~ fully_connected(nodes, n)
    /\ pc = "returned" =>
          /\ \A n \in Reach(nodes, subset) : fully_connected(nodes, n)
          /\ \A n \in discovered_nodes : neighbors(nodes, n) \subseteq discovered_nodes

\* discover was seeded with one fully connected node and failed on a node it
\* found by following an edge
C7_Witness ==
    /\ pc = "raised"
    /\ \E s \in DOMAIN nodes :
          /\ subset = {s} /\ fully_connected(nodes, s)
          /\ \E n \in discovered_nodes \ {s} : ~ fully_connected(nodes, n)

\* (a), (b) and (c) for the node with identity i
EnoughInputNodes(i) == Len(nodes[i].input_nodes) >= Len(nodes[i].inputs)
InputsCovered(i) ==
    \A k \in 1..Len(nodes[i].inputs) :
        \E j \in 1..Len(nodes[i].input_nodes) :
            Word(nodes[nodes[i].input_nodes[j]]) = nodes[i].inputs[k]
EnoughOutputNodes(i) == Len(nodes[i].output_nodes) >= Len(nodes[i].outputs)

\* C8: a node is fully connected exactly when (a) it has at least as many
\* input neighbors as input words, (b) every input word is the word of one of
\* its input neighbors and (c) it has at least as many output neighbors as
\* output words; a node without neighbors is not fully connected, and neither
\* is a node that has fewer neighbor entries than input and output words.
C8_FullyConnected ==
    \A i \in DOMAIN nodes :
        /\ fully_connected(nodes, i) <=>
              (EnoughInputNodes(i) /\ InputsCovered(i) /\ EnoughOutputNodes(i))
        /\ (nodes[i].input_nodes = <<>> /\ nodes[i].output_nodes = <<>>) =>
              ~ fully_connected(nodes, i)
        /\ (Len(nodes[i].input_nodes) + Len(nodes[i].output_nodes)
              < Len(nodes[i].inputs) + Len(nodes[i].outputs)) =>
              ~ fully_connected(nodes, i)

\* a Machine with enough neighbors on both sides, none of which supplies one
\* of its input words
C8_Witness ==
    \E i \in DOMAIN nodes :
        /\ nodes[i].kind = "Machine"
        /\ EnoughInputNodes(i) /\ EnoughOutputNodes(i) /\ ~ InputsCovered(i)
        /\ ~ fully_connected(nodes, i)

----------------------------------------------------------------------------
(* Properties of AssemblySystem.generate (Spec).                           *)

\* C1: AssemblySystem.generate never raises, whichever of the five algorithms
\* and whichever non-empty list of non-empty output words it is given (words
\* of one character included), and every node of the AssemblySystem it
\* returns is fully connected.
C1_GenerateSucceeds ==
    entry = "generate" =>
        /\ pc # "raised"
        /\ pc = "returned" => \A n \in discovered_nodes : fully_connected(nodes, n)

\* C6: discover returns the set of nodes reachable from its seeds along the
\* neighbors relation, and on a graph built by a generation function from one
\* Source per character of the output words it returns the same node set
\* whether it is seeded with the Sources, with the Sinks or with both.
C6_SeedsAgree ==
    (pc = "returned" /\ DOMAIN sources = CharsOf(words)) =>
        /\ discovered_nodes = Reach(nodes, subset)
        /\ discovered_nodes = Reach(nodes, Values(sources) \cup Values(sinks))

----------------------------------------------------------------------------
(* Properties of the graphs the generation functions build (Spec).         *)

NodesOfKind(kind) == {i \in DOMAIN nodes : nodes[i].kind = kind}

\* the Sinks that can be reached from node i along output edges
RECURSIVE Downstream(_)
Downstream(S) ==
    LET T == S \cup UNION {Range(nodes[n].output_nodes) : n \in S}
    IN  IF T = S THEN S ELSE Downstream(T)
SinksBelow(i) == Downstream({i}) \cap NodesOfKind("Sink")

\* the splits of the output words that take off one leading character
LinearSplits ==
    {<<j, k>> \in (1..Len(words)) \X (1..MaxChars) : k < Len(words[j])}
LinearPair(jk) ==
    <<SubSeq(words[jk[1]], jk[2], jk[2]),
      SubSeq(words[jk[1]], jk[2] + 1, Len(words[jk[1]]))>>

\* C9: when form_linear_assembly has returned, there is exactly one Machine
\* for every output word w and every k < len(w), combining the character w[k]
\* with the remainder w[k+1:] (n - 1 Machines for a word of n characters),
\* every Inventory and every Machine has exactly one outbound edge, and no
\* Inventory or Machine leads to the Sinks of two output words.
C9_LinearChains ==
    (algo = "linear" /\ pc = "built") =>
        /\ Cardinality(NodesOfKind("Machine")) = Cardinality(LinearSplits)
        /\ \A m \in NodesOfKind("Machine") :
              \E jk \in LinearSplits : nodes[m].inputs = LinearPair(jk)
        /\ \A jk \in LinearSplits :
              Cardinality({m \in NodesOfKind("Machine") : nodes[m].inputs = LinearPair(jk)})
                = Cardinality({x \in LinearSplits : LinearPair(x) = LinearPair(jk)})
        /\ \A i \in NodesOfKind("Inventory") \cup NodesOfKind("Machine") :
              /\ Len(nodes[i].output_nodes) = 1
              /\ Cardinality(SinksBelow(i)) = 1

\* the chains of 'ab' and 'ba' have been built: two Inventories hold 'a'
C9_Witness ==
    /\ algo = "linear" /\ pc = "built"
    /\ words = << <<"a", "b">>, <<"b", "a">> >>
    /\ Cardinality({i \in NodesOfKind("Inventory") : Word(nodes[i]) = <<"a">>}) = 2

RECURSIVE TotalChars(_)
TotalChars(ws) == IF ws = <<>> THEN 0 ELSE Len(Head(ws)) + TotalChars(Tail(ws))

LeafInventories == {i \in NodesOfKind("Inventory") : Len(Word(nodes[i])) = 1}

\* C10: form_component_assembly splits a word at floor(len/2), so the left
\* input of every Machine has that length and is not longer than the right
\* one; when it has returned, the graph holds len(w) - 1 Machines and len(w)
\* leaf Inventories for every output word w, each leaf is fed by the Source
\* of its character, every other Inventory by one Machine, every Machine by
\* the two Inventories of its input words, and every Inventory has exactly
\* one outbound edge.
C10_ComponentTree ==
    algo = "component" =>
        /\ \A m \in NodesOfKind("Machine") :
              /\ Len(nodes[m].inputs[1]) = Len(nodes[m].outputs[1]) \div 2
              /\ Len(nodes[m].inputs[1]) <= Len(nodes[m].inputs[2])
        /\ pc = "built" =>
              /\ Cardinality(NodesOfKind("Machine")) = TotalChars(words) - Len(words)
              /\ Cardinality(LeafInventories) = TotalChars(words)
              /\ \A i \in LeafInventories :
                    nodes[i].input_nodes = <<sources[Word(nodes[i])]>>
              /\ \A i \in NodesOfKind("Inventory") \ LeafInventories :
                    /\ Len(nodes[i].input_nodes) = 1
                    /\ nodes[nodes[i].input_nodes[1]].kind = "Machine"
              /\ \A m \in NodesOfKind("Machine") :
                    /\ Len(nodes[m].input_nodes) = 2
                    /\ \A k \in 1..2 :
                          /\ nodes[nodes[m].input_nodes[k]].kind = "Inventory"
                          /\ Word(nodes[nodes[m].input_nodes[k]]) = nodes[m].inputs[k]
              /\ \A i \in NodesOfKind("Inventory") : Len(nodes[i].output_nodes) = 1

\* the tree of a word of three characters has been built: 1 + 2
C10_Witness ==
    /\ algo = "component" /\ pc = "built"
    /\ \E m \in NodesOfKind("Machine") :
          Len(nodes[m].inputs[1]) = 1 /\ Len(nodes[m].inputs[2]) = 2

\* C11: the graph of form_bio_inspired_assembly holds at most one Inventory
\* per word and at most one Machine per (left, right) pair, and when the
\* function has returned, every input word of every Machine and Sink is
\* supplied by the one Inventory of that word, recorded on both sides.
C11_BioFullReuse ==
    algo = "bio_inspired" =>
        /\ \A i, j \in NodesOfKind("Inventory") :
              Word(nodes[i]) = Word(nodes[j]) => i = j
        /\ \A m, n \in NodesOfKind("Machine") :
              nodes[m].inputs = nodes[n].inputs => m = n
        /\ pc = "built" =>
              \A c \in NodesOfKind("Machine") \cup NodesOfKind("Sink") :
                  /\ \A k \in 1..Len(nodes[c].inputs) :
                        \E i \in NodesOfKind("Inventory") :
                            /\ Word(nodes[i]) = nodes[c].inputs[k]
                            /\ i \in Range(nodes[c].input_nodes)
                            /\ c \in Range(nodes[i].output_nodes)
                  /\ Range(nodes[c].input_nodes) \subseteq NodesOfKind("Inventory")

\* the graph of 'ab' and 'ba' has been built: the one Inventory of 'b' feeds
\* Machine(a, b) and Machine(b, a)
C11_Witness ==
    /\ algo = "bio_inspired" /\ pc = "built"
    /\ \E i \in NodesOfKind("Inventory") :
          /\ Word(nodes[i]) = <<"b">>
          /\ \E m, n \in Range(nodes[i].output_nodes) :
                /\ nodes[m].kind = "Machine" /\ nodes[n].kind = "Machine"
                /\ nodes[m].inputs = << <<"a">>, <<"b">> >>
                /\ nodes[n].inputs = << <<"b">>, <<"a">> >>

\* C12: when form_bio_inspired_assembly or form_product_focussed_team_assembly
\* has returned, every Inventory whose word w is not a source word is fed by
\* exactly len(w) - 1 Machines, the i-th of them having the inputs
\* (w[:i], w[i:]), exactly one outbound edge, to that Inventory, and exactly
\* two inbound edges.
C12_OneMachinePerSplit ==
    (algo \in {"bio_inspired", "product_focussed_team"} /\ pc = "built") =>
        \A inv \in NodesOfKind("Inventory") :
            LET w == Word(nodes[inv]) IN
            w \notin DOMAIN sources =>
                /\ Len(nodes[inv].input_nodes) = Len(w) - 1
                /\ \A i \in 1..(Len(w) - 1) :
                      LET m == nodes[nodes[inv].input_nodes[i]] IN
                      /\ m.kind = "Machine"
                      /\ m.inputs = <<SubSeq(w, 1, i), SubSeq(w, i + 1, Len(w))>>
                      /\ m.output_nodes = <<inv>>
                      /\ Len(m.input_nodes) = 2

\* a team has been built in which an Inventory of three characters, itself
\* the input of a Machine, is fed by its two Machines
C12_Witness ==
    /\ algo = "product_focussed_team" /\ pc = "built"
    /\ \E inv \in NodesOfKind("Inventory") :
          /\ Len(Word(nodes[inv])) = 3
          /\ Len(nodes[inv].input_nodes) = 2
          /\ nodes[nodes[inv].output_nodes[1]].kind = "Machine"

\* the nodes from which a node of S can be reached along input edges, S included
RECURSIVE Upstream(_)
Upstream(S) ==
    LET T == S \cup UNION {Range(nodes[n].input_nodes) : n \in S}
    IN  IF T = S THEN S ELSE Upstream(T)

Workers == NodesOfKind("Inventory") \cup NodesOfKind("Machine")

\* the Inventories that feed a Sink, and the Machines that feed those
FinalInventories == UNION {Range(nodes[s].input_nodes) : s \in NodesOfKind("Sink")}
TopLevelMachines == UNION {Range(nodes[i].input_nodes) : i \in FinalInventories}

\* C13: when form_product_focussed_team_assembly has returned, every Sink is
\* fed by one final Inventory, which is fed by one Machine per split position
\* of the output word; no Inventory or Machine lies upstream of two Sinks, and
\* none lies upstream of two top-level Machines; and among the Inventories
\* below the two input Inventories of a top-level Machine no two hold the
\* same word.
C13_TeamScopedReuse ==
    (algo = "product_focussed_team" /\ pc = "built") =>
        /\ \A s \in NodesOfKind("Sink") :
              /\ Len(nodes[s].input_nodes) = 1
              /\ LET final == nodes[nodes[s].input_nodes[1]] IN
                 /\ final.kind = "Inventory"
                 /\ Len(final.input_nodes) = Len(nodes[s].inputs[1]) - 1
                 /\ \A k \in 1..Len(final.input_nodes) :
                       nodes[final.input_nodes[k]].kind = "Machine"
        /\ \A s, t \in NodesOfKind("Sink") :
              s # t => Upstream({s}) \cap Upstream({t}) \cap Workers = {}
        /\ \A m, n \in TopLevelMachines :
              m # n => Upstream({m}) \cap Upstream({n}) \cap Workers = {}
        /\ \A m \in TopLevelMachines :
              LET below == (Upstream({m}) \ ({m} \cup Range(nodes[m].input_nodes)))
                              \cap NodesOfKind("Inventory")
              IN  \A i, j \in below : Word(nodes[i]) = Word(nodes[j]) => i = j

\* the two teams of 'aba', a + ba and ab + a, have been built, each with an
\* Inventory of 'b' of its own
C13_Witness ==
    /\ algo = "product_focussed_team" /\ pc = "built"
    /\ words = << <<"a", "b", "a">> >>
    /\ Cardinality(TopLevelMachines) = 2
    /\ Cardinality({i \in NodesOfKind("Inventory") : Word(nodes[i]) = <<"b">>}) = 2

\* C14: in the graph form_late_product_differentiation builds, while it is
\* built from Sources for all characters of the output words and whenever the
\* function has returned, no two Inventories hold the same standard word; when
\* the function has returned, every Machine input that is a standard word is
\* supplied by the Inventory of that word, recorded on both sides, and every
\* Inventory of a non-standard word has a single consumer, so that each
\* occurrence of the word has its own Inventory.
C14_StandardInventoryOnce ==
    algo = "late_product_differentiation" =>
        /\ (pc = "built" \/ CharsOf(words) \subseteq DOMAIN sources) =>
              \A i, j \in NodesOfKind("Inventory") :
                  (Word(nodes[i]) \in w_standard /\ Word(nodes[i]) = Word(nodes[j])) => i = j
        /\ pc = "built" =>
              /\ \A m \in NodesOfKind("Machine") : \A k \in 1..2 :
                    nodes[m].inputs[k] \in w_standard =>
                        \E i \in NodesOfKind("Inventory") :
                            /\ Word(nodes[i]) = nodes[m].inputs[k]
                            /\ i \in Range(nodes[m].input_nodes)
                            /\ m \in Range(nodes[i].output_nodes)
              /\ \A i \in NodesOfKind("Inventory") :
                    Word(nodes[i]) \notin w_standard => Len(nodes[i].output_nodes) = 1

\* 'abab' has been built around the standard word 'b': the one Inventory of
\* 'b' feeds two Machines, and the two occurrences of the non-standard word
\* 'ab' have an Inventory each
C14_Witness ==
    /\ algo = "late_product_differentiation" /\ pc = "built"
    /\ w_standard = {<<"b">>}
    /\ \E i \in NodesOfKind("Inventory") :
          /\ Word(nodes[i]) = <<"b">>
          /\ Cardinality(Range(nodes[i].output_nodes)) = 2
    /\ Cardinality({i \in NodesOfKind("Inventory") : Word(nodes[i]) = <<"a", "b">>}) = 2

----------------------------------------------------------------------------
(* Properties of form_late_product_differentiation (Spec).                 *)

\* the edge p -> c is recorded on both sides in heap h
EdgeIn(h, p, c) == c \in Range(h[p].output_nodes) /\ p \in Range(h[c].input_nodes)

IsMachineOf(h, m, left_word, right_word) ==
    h[m].kind = "Machine" /\ h[m].inputs = <<left_word, right_word>>

IsInventoryOf(h, i, w) == h[i].kind = "Inventory" /\ Word(h[i]) = w

\* a turn of the loop of late differentiation on a word that is not a source word
LateSupplyStep ==
    /\ algo = "late_product_differentiation" /\ pc = "loop"
    /\ inventories_to_supply # <<>>
    /\ Word(nodes[Top]) \notin DOMAIN sources

\* the nodes a step creates
NewIds == (Len(nodes) + 1)..Len(nodes')

\* the standard words other than w that occur in w
StandardPartsOf(w) == {c \in w_standard : c # w /\ IsSubstring(c, w)}

\* the step has built w = head + c + tail around the standard word c
BuiltAround(head, c, tail) ==
    /\ \E s \in DOMAIN nodes', m \in NewIds :
          /\ IsInventoryOf(nodes', s, c)
          /\ EdgeIn(nodes', s, m)
          /\ IsMachineOf(nodes', m, IF head = <<>> THEN c ELSE head,
                                    IF head = <<>> THEN tail ELSE c)
          /\ IF head # <<>> /\ tail # <<>>
             THEN \E x, m2 \in NewIds :
                     /\ IsInventoryOf(nodes', x, head \o c)
                     /\ IsMachineOf(nodes', m2, head \o c, tail)
                     /\ EdgeIn(nodes', m, x)
                     /\ EdgeIn(nodes', x, m2)
                     /\ EdgeIn(nodes', m2, Top)
             ELSE EdgeIn(nodes', m, Top)

\* the step has split w at position 1 and put both halves on the worklist
SplitAtOne(w) ==
    \E m, l, r \in NewIds :
        /\ NewIds = {m, l, r}
        /\ IsMachineOf(nodes', m, Slice(w, 0, 1), Slice(w, 1, Len(w)))
        /\ IsInventoryOf(nodes', l, Slice(w, 0, 1))
        /\ IsInventoryOf(nodes', r, Slice(w, 1, Len(w)))
        /\ EdgeIn(nodes', m, Top) /\ EdgeIn(nodes', l, m) /\ EdgeIn(nodes', r, m)
        /\ inventories_to_supply' =
              SubSeq(inventories_to_supply, 1, Len(inventories_to_supply) - 1) \o <<l, r>>

\* C15: a turn of late differentiation on a word w that is not a source word
\* builds w around a standard word c # w that occurs in w and is as long as any
\* such standard word; when there is none it splits w at position 1 into a
\* Machine(w[:1], w[1:]) and puts the Inventories of both halves on the
\* worklist. For the standard set {'ba'} and the output 'abab' the function
\* returns Machine(a, ba) into Inventory 'aba' and Machine(aba, b) into the
\* Inventory of 'abab'.
C15_LongestStandardWord ==
    /\ [][LateSupplyStep =>
            LET w == Word(nodes[Top]) IN
            IF StandardPartsOf(w) = {} THEN SplitAtOne(w)
            ELSE \E c \in StandardPartsOf(w) :
                    /\ \A d \in StandardPartsOf(w) : Len(d) <= Len(c)
                    /\ \E i \in 0..(Len(w) - Len(c)) :
                          /\ Slice(w, i, i + Len(c)) = c
                          /\ err' = "none"
                          /\ BuiltAround(Slice(w, 0, i), c, Slice(w, i + Len(c), Len(w)))]_vars
    /\ [](( /\ algo = "late_product_differentiation" /\ pc = "built"
            /\ words = << <<"a", "b", "a", "b">> >> /\ w_standard = {<<"b", "a">>} )
          => \E m1, m2, x, y \in DOMAIN nodes :
                /\ IsMachineOf(nodes, m1, <<"a">>, <<"b", "a">>)
                /\ IsInventoryOf(nodes, x, <<"a", "b", "a">>)
                /\ IsMachineOf(nodes, m2, <<"a", "b", "a">>, <<"b">>)
                /\ IsInventoryOf(nodes, y, <<"a", "b", "a", "b">>)
                /\ EdgeIn(nodes, m1, x) /\ EdgeIn(nodes, x, m2) /\ EdgeIn(nodes, m2, y))

\* the function has returned a graph in which the longer of two standard words
\* that both occur in 'abab' was chosen: Machine(a, ba) feeds Inventory 'aba'
C15_Witness ==
    /\ algo = "late_product_differentiation" /\ pc = "built"
    /\ words = << <<"a", "b", "a", "b">> >>
    /\ w_standard = {<<"b", "a">>, <<"b">>}
    /\ \E m1, x \in DOMAIN nodes :
          /\ IsMachineOf(nodes, m1, <<"a">>, <<"b", "a">>)
          /\ IsInventoryOf(nodes, x, <<"a", "b", "a">>)
          /\ EdgeIn(nodes, m1, x)

NewMachines == {m \in NewIds : nodes'[m].kind = "Machine"}

\* the empty string is the word of no node of NewIds and an input of none
NoEmptyWordCreated ==
    \A i \in NewIds : Word(nodes'[i]) # <<>> /\ <<>> \notin Range(nodes'[i].inputs)

\* C16: a turn of late differentiation that builds w around the standard word
\* at its first occurrence, w = head + standard + tail, creates exactly two
\* Machines when head and tail are both non-empty, Machine(head, standard)
\* into a new Inventory head+standard and Machine(head+standard, tail) into
\* the Inventory of w, and exactly one Machine when one of them is empty,
\* Machine(head, standard) or Machine(standard, tail), into the Inventory of
\* w; no node it creates has the empty word or an empty input.
C16_HeadStandardTail ==
    [][(LateSupplyStep /\ StandardPartsOf(Word(nodes[Top])) # {}) =>
          LET w == Word(nodes[Top]) IN
          \E c \in StandardPartsOf(w) :
              LET i == CHOOSE k \in 0..(Len(w) - Len(c)) :
                          /\ Slice(w, k, k + Len(c)) = c
                          /\ \A j \in 0..(k - 1) : Slice(w, j, j + Len(c)) # c
                  head == Slice(w, 0, i)
                  tail == Slice(w, i + Len(c), Len(w))
              IN  /\ BuiltAround(head, c, tail)
                  /\ Cardinality(NewMachines) = IF head # <<>> /\ tail # <<>> THEN 2 ELSE 1
                  /\ head # <<>> \/ tail # <<>>
                  /\ NoEmptyWordCreated]_vars

\* the function has returned a graph with a word built from head, standard word
\* and tail by two Machines ('abab' around 'ba': a + ba + b), and one built from
\* a standard word and a tail alone by one Machine ('ba' around 'b': b + a)
C16_Witness ==
    /\ algo = "late_product_differentiation" /\ pc = "built"
    /\ w_standard = {<<"b", "a">>, <<"b">>}
    /\ \E m1, m2, m3, x, y, z \in DOMAIN nodes :
          /\ IsMachineOf(nodes, m1, <<"a">>, <<"b", "a">>)
          /\ IsInventoryOf(nodes, x, <<"a", "b", "a">>)
          /\ IsMachineOf(nodes, m2, <<"a", "b", "a">>, <<"b">>)
          /\ IsInventoryOf(nodes, y, <<"a", "b", "a", "b">>)
          /\ EdgeIn(nodes, m1, x) /\ EdgeIn(nodes, x, m2) /\ EdgeIn(nodes, m2, y)
          /\ nodes[y].input_nodes = <<m2>>
          /\ IsMachineOf(nodes, m3, <<"b">>, <<"a">>)
          /\ IsInventoryOf(nodes, z, <<"b", "a">>)
          /\ EdgeIn(nodes, m3, z)
          /\ nodes[z].input_nodes = <<m3>>

----------------------------------------------------------------------------
(* Error handling of the generation functions (Spec).                      *)

\* the next turn of the loop calls split_word on a word of one character
SplitsOneCharacter ==
    /\ pc = "loop" /\ inventories_to_supply # <<>>
    /\ Len(Word(nodes[Top])) = 1
    /\ \/ algo = "linear"
       \/ /\ algo \in {"component", "late_product_differentiation"}
          /\ Word(nodes[Top]) \notin DOMAIN sources

\* C17: a turn of a generation algorithm that splits a word of one character
\* raises the invalid-split-position error at once: it creates no node, and
\* the function does not go on; no Machine or Inventory of any graph has the
\* empty word or an empty input.
C17_OneCharacterSplitFails ==
    /\ [][SplitsOneCharacter =>
            /\ err' = "InvalidSplitPosition" /\ pc' = "raised"
            /\ nodes' = nodes]_vars
    /\ [](\A i \in DOMAIN nodes :
            Word(nodes[i]) # <<>> /\ <<>> \notin Range(nodes[i].inputs))

\* a direct call whose source mapping lacks a character of an output word
SourceMissing == entry = "direct" /\ ~(CharsOf(words) \subseteq DOMAIN sources)

\* C18: a generation function called directly with a source mapping that lacks
\* a character of an output word raises nothing itself; the only error of the
\* run is the incomplete-graph error of the discover that follows, and no
\* discover seeded with all the Sinks returns.
C18_MissingSourceFailsAtDiscover ==
    SourceMissing =>
        /\ pc = "raised" => err = "IncompleteGraph"
        /\ pc = "returned" => ~(Values(sinks) \subseteq subset)

----------------------------------------------------------------------------
(* One-sided edges and discover (SpecEdge).                                *)

\* exactly one of p and c records the edge p -> c
OneSided(h, p, c) ==
    ~((c \in Range(h[p].output_nodes)) <=> (p \in Range(h[c].input_nodes)))

\* C19: when the edge between two nodes P and C is recorded on one side only,
\* every discover whose closure contains P or C raises the incomplete-graph
\* error, whatever other edges the nodes have.
C19_OneSidedEdgeDetected ==
    (/\ pc \in {"returned", "raised"}
     /\ \E p, c \in DOMAIN nodes :
           OneSided(nodes, p, c) /\ {p, c} \cap discovered_nodes # {})
    => (pc = "raised" /\ err = "IncompleteGraph")

----------------------------------------------------------------------------
(* The edges of the generated graphs (Spec).                               *)

RECURSIVE CountIn(_, _)
\* the number of times x occurs in the list s
CountIn(s, x) ==
    IF s = <<>> THEN 0
    ELSE (IF s[1] = x THEN 1 ELSE 0) + CountIn(SubSeq(s, 2, Len(s)), x)

\* every edge recorded in heap h joins a producer and a consumer that share a
\* word and whose kinds alternate, and both record it equally often
ValidEdge(h, p, c) ==
    /\ Range(h[p].outputs) \cap Range(h[c].inputs) # {}
    /\ <<h[p].kind, h[c].kind>> \in PermittedKinds
    /\ CountIn(h[p].output_nodes, c) = CountIn(h[c].input_nodes, p)

ValidEdges(h) ==
    \A n \in DOMAIN h :
        /\ \A c \in Range(h[n].output_nodes) : ValidEdge(h, n, c)
        /\ \A p \in Range(h[n].input_nodes) : ValidEdge(h, p, n)

\* C20: in the graph a generation function has returned, every recorded edge
\* joins a producer and a consumer with a common word, of kinds Source ->
\* Inventory, Inventory -> Machine, Machine -> Inventory or Inventory -> Sink,
\* and is recorded as often in the producer's output list as in the consumer's
\* input list; the same holds of the graph while the function builds it with
\* the classes of wordmill.py.
C20_EdgesValid ==
    /\ pc \in {"built", "returned"} => ValidEdges(nodes)
    /\ (\A i \in DOMAIN nodes : nodes[i].mod = "wordmill") => ValidEdges(nodes)

\* a generation function has returned a graph in which an Inventory supplies
\* both inputs of a Machine, an edge recorded twice on each side
C20_Witness ==
    /\ pc = "built"
    /\ \E p \in NodesOfKind("Inventory"), c \in NodesOfKind("Machine") :
          /\ CountIn(nodes[p].output_nodes, c) = 2
          /\ CountIn(nodes[c].input_nodes, p) = 2
    /\ \E p \in NodesOfKind("Source"), c \in NodesOfKind("Inventory") :
          EdgeIn(nodes, p, c)

----------------------------------------------------------------------------
(* Termination of the generation functions (SpecFair).                     *)

\* ENABLED <<Next>>_vars, written out from the guards of the actions: the
\* function can start, the loop can take a turn, the loop has ended (the
\* function returns, or the team algorithm takes its next pair), or discover
\* can be called on what the function returned
CanStep ==
    \/ Running
    \/ Looping
    \/ pc = "loop" /\ inventories_to_supply = <<>>
    \/ pc = "built"

\* a call that has started keeps running, WF_vars(Next): a step is taken again
\* and again unless none can be taken
SpecFair == Spec /\ ([]<>(~CanStep) \/ []<><<Next>>_vars)

\* the generation function has returned or raised
FuncDone == pc \in {"built", "raised", "returned"}

\* the Inventories a turn of the worklist loop puts on the worklist hold words
\* shorter than the word of the Inventory it took off
WorklistShrinks ==
    (pc = "loop" /\ inventories_to_supply # <<>> /\ pc' = "loop") =>
        \A k \in Len(inventories_to_supply)..Len(inventories_to_supply') :
            Len(Word(nodes'[inventories_to_supply'[k]])) < Len(Word(nodes[Top]))

\* C21: every call of a generation function returns or raises, whether or not
\* the source mapping holds every character, and every Inventory a turn adds
\* to the worklist holds a strictly shorter word than the one it processes.
C21_GenerationTerminates ==
    /\ <>FuncDone
    /\ [][WorklistShrinks]_vars

----------------------------------------------------------------------------
(* The system AssemblySystem.generate returns (Spec).                      *)

\* C22: the system AssemblySystem.generate returns holds the Sink of every
\* output word and the Source of every character of the output words, and
\* every Sink has among its input nodes an Inventory of its word that is in
\* the system too.
C22_GenerateReturnsAllSinks ==
    (entry = "generate" /\ pc = "returned") =>
        /\ Values(sinks) \subseteq discovered_nodes
        /\ Values(sources) \subseteq discovered_nodes
        /\ DOMAIN sources = CharsOf(words)
        /\ \A w \in DOMAIN sinks :
              \E i \in Range(nodes[sinks[w]].input_nodes) \cap discovered_nodes :
                  IsInventoryOf(nodes, i, w)

----------------------------------------------------------------------------
(* form_edge of node_types.py is all or nothing (SpecEdge).                *)

\* P.form_outbound_edge(C) and C.form_inbound_edge(P), each called on its own
\* in the current heap, succeed
OutboundSucceeds(p, c) == form_outbound_edge([nodes |-> nodes, err |-> "none"], p, c).err = "none"
InboundSucceeds(p, c) == form_inbound_edge([nodes |-> nodes, err |-> "none"], c, p).err = "none"

\* C23: for every two nodes of node_types.py, P.form_outbound_edge(C) succeeds
\* exactly when C.form_inbound_edge(P) does, so form_edge(P, C) never records
\* the outbound side and then fails on the inbound side: a form_edge that
\* raises leaves every neighbor list as it was, and one that returns has
\* appended C to P's output nodes and P to C's input nodes.
C23_FormEdgeAllOrNothing ==
    /\ [](pc = "build" =>
            \A p, c \in DOMAIN nodes : OutboundSucceeds(p, c) <=> InboundSucceeds(p, c))
    /\ [][(pc' = "build" /\ last'.op = "form_edge") =>
            IF last'.err # "none" THEN nodes' = nodes
            ELSE nodes' = [[nodes EXCEPT ![last'.source].output_nodes = Append(@, last'.sink)]
                              EXCEPT ![last'.sink].input_nodes = Append(@, last'.source)]]_vars

\* a form_edge between two nodes that already have neighbors has raised the
\* kind error
C23_Witness ==
    /\ pc = "build" /\ last.op = "form_edge" /\ last.err = "KindViolation"
    /\ nodes[last.source].output_nodes # <<>>
    /\ nodes[last.sink].input_nodes # <<>>

----------------------------------------------------------------------------
(* Output words that are standard words (Spec).                            *)

\* C24: form_late_product_differentiation called with an output word that is
\* a standard word, and with a Source for every character, raises nothing;
\* when it has returned, the Sink of every such word is fed by the one
\* Inventory of the word, which has an input node of its own.
C24_StandardOutputWord ==
    (/\ algo = "late_product_differentiation"
     /\ Range(words) \cap w_standard # {}
     /\ CharsOf(words) \subseteq DOMAIN sources
     /\ \A i \in DOMAIN nodes : nodes[i].mod = "wordmill")
    => /\ pc # "raised"
       /\ pc = "built" =>
             \A w \in Range(words) \cap w_standard :
                 \E i \in DOMAIN nodes :
                     /\ IsInventoryOf(nodes, i, w)
                     /\ EdgeIn(nodes, i, sinks[w])
                     /\ nodes[i].input_nodes # <<>>
                     /\ \A j \in DOMAIN nodes : IsInventoryOf(nodes, j, w) => j = i

----------------------------------------------------------------------------
(* SpecGraph: nodes of wordmill.py, whose edge methods check nothing, wired *)
(* by hand into any graph, self-loops, cycles and parallel edges included, *)
(* and handed to discover.                                                 *)

\* longest list of seeds handed to discover
MaxSeeds == 3

GraphHeap == <<Inventory("wordmill", a1), Machine("wordmill", a1, a1)>>

\* the lists a caller can pass as `subset`, repeated nodes included
SeedLists == UNION {[1..k -> DOMAIN GraphHeap] : k \in 0..MaxSeeds}

InitGraph ==
    /\ GenIdle
    /\ nodes = GraphHeap
    /\ err = "none" /\ last = NoLast /\ split = NoSplit
    /\ untreated_nodes = {} /\ discovered_nodes = {} /\ subset = {}
    /\ pc = "build"

\* AssemblySystem.discover(seeds): line 345 (wordmill.py line 264), set(subset)
DiscoverList ==
    /\ pc = "build"
    /\ \E seeds \in SeedLists : BeginDiscover(Range(seeds))
    /\ last' = NoLast
    /\ UNCHANGED <<nodes, err, split, genVars>>

NextGraph == Outbound \/ Inbound \/ DiscoverList \/ DiscoverPop \/ DiscoverCheck

\* a discover that has been called keeps running
SpecGraph == InitGraph /\ [][NextGraph]_vars /\ WF_vars(DiscoverPop \/ DiscoverCheck)

\* the call of discover has ended
DiscoverDone == pc \in {"returned", "raised"}

\* a turn of the loop takes one node n off the worklist, adds it to the
\* discovered set, and puts on the worklist no node of the discovered set
TurnOfDiscover ==
    (pc = "discover" /\ untreated_nodes # {}) =>
        \E n \in untreated_nodes :
            /\ discovered_nodes' = discovered_nodes \cup {n}
            /\ (untreated_nodes' \ (untreated_nodes \ {n})) \cap discovered_nodes = {}
            /\ untreated_nodes' \ (untreated_nodes \ {n}) \subseteq neighbors(nodes, n)

\* C25: every call of discover ends, on graphs with self-loops, cycles and
\* parallel edges and for seed lists with repeated nodes; it ends with the
\* closure of the seeds in the discovered set; no turn of its loop puts a node
\* of the discovered set on the worklist, and the only discovered nodes found
\* on the worklist are nodes that are their own neighbor.
C25_DiscoverTerminates ==
    /\ (pc = "discover") ~> DiscoverDone
    /\ [][TurnOfDiscover]_vars
    /\ [](DiscoverDone => discovered_nodes = Reach(nodes, subset))
    /\ [](pc = "discover" =>
            \A n \in untreated_nodes \cap discovered_nodes : n \in neighbors(nodes, n))

\* discover has ended on a graph in which node 1 is its own neighbor, feeds
\* node 2 twice and is fed by it
C25_Witness ==
    /\ DiscoverDone
    /\ discovered_nodes = {1, 2}
    /\ 1 \in Range(nodes[1].output_nodes)
    /\ CountIn(nodes[1].output_nodes, 2) = 2
    /\ 1 \in Range(nodes[2].output_nodes)

====
